---- MODULE Spec2Model ----
(***************************************************************************)
(* Block template generator of prova (src/mining.go): the transaction      *)
(* priority queue, the mempool scan that builds candidates and their       *)
(* dependencies, the assembly loop with its size / sigop / fee gates, the  *)
(* finalizer that settles the coinbase and builds the header, and          *)
(* UpdateBlockTime.                                                        *)
(*                                                                         *)
(* Sizes, sigop limits and priorities are scaled down so that every gate   *)
(* is crossed by the small transactions of TxCatalog; unsigned 32-bit      *)
(* arithmetic is kept as arithmetic modulo 2^UintBits.                     *)
(***************************************************************************)
EXTENDS Integers, Sequences, FiniteSets, TLC

\* ------------------------------------------------------------------ bounds
\* Longest source pool (number of mining descs returned by MiningDescs).
MaxPool == 3
\* Number of UpdateBlockTime calls followed on a returned template.
MaxUpdates == 2
\* Longest priority queue when the queue is exercised on its own.
MaxQueue == 4
\* Width of the unsigned size arithmetic (uint32 in the source, scaled).
UintBits == 8

\* ------------------------------------------------------- program constants
generatedBlockVersion == 4
\* wire.MaxVarIntPayload
MaxVarIntPayload == 9
\* wire.MaxBlockHeaderPayload (scaled)
MaxBlockHeaderPayload == 11
blockHeaderOverhead == MaxBlockHeaderPayload + MaxVarIntPayload
\* blockchain.MaxSigOpsPerBlock (scaled)
MaxSigOpsPerBlock == 5
\* mempool.MinHighPriority (scaled)
MinHighPriority == 3

UintMod == 2 ^ UintBits

\* ------------------------------------------------------------------ scripts
\* Output scripts are sequences of opcodes / pushed data.
OpTrueScript == <<"OP_TRUE">>
nullScript == <<"OP_RETURN">>
\* txscript.PayToAddrScript(addr): a script longer than one opcode.
PayToAddrScript(addr) == <<"OP_DUP", addr, "OP_CHECKSIG">>
NoAddress == "nil"
Addresses == {"addr"}

\* blockchain.CountSigOps of the coinbase: signature opcodes of its output script.
CountScriptSigOps(script) == Cardinality({k \in 1..Len(script) : script[k] = "OP_CHECKSIG"})

\* Serialized size of the coinbase: fixed part plus the output script length.
CoinbaseSerializeSize(cb) == 10 + Len(cb.PkScript)

\* wire.VarIntSerializeSize
VarIntSerializeSize(n) == IF n < 253 THEN 1 ELSE IF n <= 65535 THEN 3 ELSE 5

\* ------------------------------------------------------------ transactions
\* Hashes of transactions confirmed in the chain, with their unspent outputs,
\* and one hash known neither to the chain nor to the source pool.
ChainUnspent == [h \in {101, 102} |-> {0, 1}]
ChainHashes == DOMAIN ChainUnspent
UnknownHashes == {199}

\* A pool transaction. ins: the previous outpoints <<hash, index>>; nOuts:
\* number of outputs; size: SerializeSize; fee: txDesc.Fee; prio: the value of
\* mining.CalcPriority; sigOps / p2sh: CountSigOps / CountP2SHSigOps; admin:
\* isAdmin; kind: "normal", "coinbase", "nonfinal" or "fetchErr" (FetchUtxoView
\* fails); check: outcome of the external checks when nothing else fails,
\* "ok", "p2shErr", "badInputs", "badOutputs" or "badScripts".
Tx(hash, ins, nOuts, size, fee, prio, sigOps, p2sh, admin, kind, check) ==
    [hash |-> hash, ins |-> ins, nOuts |-> nOuts, size |-> size, fee |-> fee,
     prio |-> prio, sigOps |-> sigOps, p2sh |-> p2sh, admin |-> admin,
     kind |-> kind, check |-> check]

TxCatalog ==
    << Tx(1, << <<101, 0>> >>, 2, 10, 100, 5, 1, 0, FALSE, "normal", "ok"),
       Tx(2, << <<101, 1>> >>, 1, 20, 40, 1, 2, 2, FALSE, "normal", "ok"),
       Tx(3, << <<2, 0>> >>, 1, 10, 20, 0, 1, 0, FALSE, "normal", "ok"),
       Tx(4, << <<102, 0>> >>, 1, 10, 0, 0, 0, 0, TRUE, "normal", "ok"),
       Tx(5, << <<1, 0>>, <<199, 0>> >>, 1, 10, 50, 0, 0, 0, FALSE, "normal", "ok"),
       Tx(6, << <<101, 0>> >>, 1, 10, 30, 4, 1, 0, FALSE, "fetchErr", "ok"),
       Tx(7, << <<3, 0>> >>, 1, 10, 20, 4, 0, 0, FALSE, "normal", "ok"),
       Tx(8, << <<1, 0>> >>, 1, 10, 20, 0, 0, 0, FALSE, "normal", "ok"),
       Tx(9, << <<1, 1>> >>, 1, 10, 20, 0, 0, 0, FALSE, "normal", "ok"),
       Tx(10, << <<11, 0>> >>, 2, 10, 60, 5, 0, 0, FALSE, "normal", "ok"),
       Tx(11, << <<10, 0>> >>, 1, 10, 60, 5, 0, 0, FALSE, "normal", "ok"),
       Tx(12, << <<12, 0>> >>, 1, 10, 60, 5, 0, 0, FALSE, "normal", "ok"),
       Tx(13, << <<1, 0>>, <<199, 0>>, <<12, 0>> >>, 1, 10, 60, 5, 0, 0, FALSE, "normal", "ok"),
       Tx(14, << <<102, 1>> >>, 1, 10, 15, 3, 0, 0, FALSE, "normal", "ok"),
       Tx(15, << <<1, 1>>, <<14, 0>> >>, 1, 10, 30, 0, 0, 0, FALSE, "normal", "ok"),
       Tx(16, << <<102, 1>> >>, 1, 10, 30, 2, 0, 0, TRUE, "normal", "ok"),
       Tx(17, << <<101, 0>> >>, 1, 10, 60, 5, 0, 0, FALSE, "normal", "badOutputs"),
       Tx(18, << <<101, 1>> >>, 1, 10, 50, 4, 0, 0, FALSE, "normal", "badScripts"),
       Tx(19, << <<102, 0>> >>, 1, 10, 40, 4, 0, 0, FALSE, "normal", "p2shErr"),
       Tx(20, << <<102, 1>> >>, 1, UintMod - 6, 500, 5, 0, 0, FALSE, "normal", "ok"),
       Tx(21, << <<1, 0>> >>, 1, 10, 20, 0, 0, 0, FALSE, "normal", "ok"),
       Tx(22, << <<101, 1>> >>, 1, 10, 0, 5, 0, 0, FALSE, "coinbase", "ok"),
       Tx(23, << <<101, 1>> >>, 1, 10, 70, 5, 0, 0, FALSE, "nonfinal", "ok"),
       Tx(24, << <<101, 1>> >>, 1, 10, 10, 0, 0, 0, FALSE, "normal", "ok") >>

TxIds == 1..Len(TxCatalog)
AllHashes == TxIds \cup ChainHashes \cup UnknownHashes

\* Families of related catalog transactions: independent roots with a chain of
\* descendants and an admin transaction; the children of transaction 1, one of
\* them with an unknown parent, and a failing fetch; a cycle of two, a
\* transaction spending its own output and a descendant of it; roots whose
\* priority and fee orders differ, a child of two parents and admin transactions;
\* transactions failing the output, script and P2SH checks and one of nearly the
\* largest size; two children spending the same output of transaction 1; a
\* coinbase, a non-finalized and a low-fee transaction.
Families == {{1, 2, 3, 4, 7}, {1, 5, 6, 8, 9}, {1, 10, 11, 12, 13}, {2, 14, 1, 15, 16},
             {1, 17, 18, 19}, {1, 8, 21, 20}, {22, 23, 24}}

\* Source pools: sequences of distinct transactions of one family, in iteration order.
Pools == UNION {{s \in [1..n -> F] : \A i, j \in 1..n : i # j => s[i] # s[j]} : n \in 0..MaxPool, F \in Families}

\* Policies (mining.Policy).
Policies == [BlockMaxSize : {20, 51, 100}, BlockMinSize : {0, 60}, BlockPrioritySize : {0, 43}, TxMinFreeFee : {1500}]

\* Values of blockchain.CalcBlockSubsidy at the next height.
Subsidies == {0, 50}
\* Median times of best snapshots and readings of the adjusted clock (seconds).
MedianTimes == {5, 6}
AdjustedTimes == {5, 7}


\* ---------------------------------------------------------------- utxo views
\* A view maps a transaction hash to its entry: exists is FALSE when the view
\* holds no (or a nil) entry, unspent is the set of unspent output indices.
NoEntry == [exists |-> FALSE, unspent |-> {}]
EmptyView == [h \in AllHashes |-> NoEntry]
IsFullySpent(entry) == entry.unspent = {}
\* utxoEntry == nil || utxoEntry.IsOutputSpent(originIndex)
OutputMissing(view, outpoint) == ~view[outpoint[1]].exists \/ outpoint[2] \notin view[outpoint[1]].unspent

\* chain.FetchUtxoView(tx): the confirmed-chain entries of the transactions that
\* tx spends from; the source pool is intentionally not consulted.
FetchUtxoView_WithPool(tx, pool) ==
    [h \in AllHashes |->
        IF \E k \in 1..Len(tx.ins) : tx.ins[k][1] = h
        THEN IF h \in ChainHashes THEN [exists |-> TRUE, unspent |-> ChainUnspent[h]]
             ELSE IF \E k \in 1..Len(pool) : pool[k] = h
                  THEN [exists |-> TRUE, unspent |-> 0..(TxCatalog[h].nOuts - 1)]
                  ELSE NoEntry
        ELSE NoEntry]
FetchUtxoView(tx, pool) ==
    [h \in AllHashes |->
        IF h \in ChainHashes /\ \E k \in 1..Len(tx.ins) : tx.ins[k][1] = h
        THEN [exists |-> TRUE, unspent |-> ChainUnspent[h]]
        ELSE NoEntry]

mergeUtxoView(viewA, viewB) ==
    [h \in AllHashes |->
        IF viewB[h].exists /\ (~viewA[h].exists \/ IsFullySpent(viewA[h]))
        THEN viewB[h] ELSE viewA[h]]

RECURSIVE SpendInputs(_, _, _)
SpendInputs(view, ins, k) ==
    IF k > Len(ins) THEN view
    ELSE LET h == ins[k][1]
             v == IF view[h].exists
                  THEN [view EXCEPT ![h].unspent = @ \ {ins[k][2]}]
                  ELSE view
         IN SpendInputs(v, ins, k + 1)
\* Mark the inputs of tx spent, then add all of its outputs (AddTxOuts).
spendTransaction_OutputsOnly(utxoView, tx) ==
    [utxoView EXCEPT ![tx.hash] = [exists |-> TRUE, unspent |-> 0..(tx.nOuts - 1)]]
spendTransaction(utxoView, tx) ==
    [SpendInputs(utxoView, tx.ins, 1) EXCEPT ![tx.hash] = [exists |-> TRUE, unspent |-> 0..(tx.nOuts - 1)]]

\* blockchain.CheckTransactionInputs: every input must be available unspent in
\* the working view (a missing or double-spent input is an error); the other
\* causes of failure are the transaction's check attribute.
CheckTransactionInputs(tx, view) ==
    /\ tx.check # "badInputs"
    /\ \A k \in 1..Len(tx.ins) : ~OutputMissing(view, tx.ins[k])

\* -------------------------------------------------------------- txPrioItem
\* hasDeps is FALSE while dependsOn is the nil map; dependsOn is the set of its keys.
ZeroItem == [tx |-> 0, fee |-> 0, priority |-> 0, feePerKB |-> 0, isAdmin |-> FALSE, hasDeps |-> FALSE, dependsOn |-> {}]
NoItem == [ZeroItem EXCEPT !.tx = -1]

txPQByPriority(a, b) ==
    IF a.isAdmin THEN TRUE
    ELSE IF a.priority = b.priority THEN a.feePerKB > b.feePerKB
    ELSE a.priority > b.priority

txPQByFee(a, b) ==
    IF a.isAdmin THEN TRUE
    ELSE IF a.feePerKB = b.feePerKB THEN a.priority > b.priority
    ELSE a.feePerKB > b.feePerKB

\* ------------------------------------------------------------ txPriorityQueue
\* pq = [lessFunc, items]; items holds the hashes of the queued prio items, pi
\* maps a hash to its item. Indices i, j are 0-based as in the source.
Less(pq, pi, i, j) ==
    IF pq.lessFunc = "txPQByFee"
    THEN txPQByFee(pi[pq.items[i + 1]], pi[pq.items[j + 1]])
    ELSE txPQByPriority(pi[pq.items[i + 1]], pi[pq.items[j + 1]])

Swap(pq, i, j) ==
    [pq EXCEPT !.items = [@ EXCEPT ![i + 1] = pq.items[j + 1], ![j + 1] = pq.items[i + 1]]]

\* container/heap: up, down, Init, Push, Pop over the queue.
RECURSIVE heapUp(_, _, _)
heapUp(pq, pi, j) ==
    IF j = 0 THEN pq
    ELSE LET i == (j - 1) \div 2
         IN IF ~Less(pq, pi, j, i) THEN pq ELSE heapUp(Swap(pq, i, j), pi, i)

RECURSIVE heapDown(_, _, _, _)
heapDown(pq, pi, i, n) ==
    LET j1 == 2 * i + 1
    IN IF j1 >= n THEN pq
       ELSE LET j == IF j1 + 1 < n /\ Less(pq, pi, j1 + 1, j1) THEN j1 + 1 ELSE j1
            IN IF ~Less(pq, pi, j, i) THEN pq ELSE heapDown(Swap(pq, i, j), pi, j, n)

RECURSIVE heapInitFrom(_, _, _)
heapInitFrom(pq, pi, i) ==
    IF i < 0 THEN pq ELSE heapInitFrom(heapDown(pq, pi, i, Len(pq.items)), pi, i - 1)
heapInit(pq, pi) == heapInitFrom(pq, pi, (Len(pq.items) \div 2) - 1)

\* heap.Push(pq, x): txPriorityQueue.Push appends, then up(n-1).
heapPush(pq, pi, x) ==
    heapUp([pq EXCEPT !.items = Append(@, x)], pi, Len(pq.items))

\* heap.Pop(pq): Swap(0, n-1), down(0, n-1), then txPriorityQueue.Pop removes
\* and returns the last item.
heapPop(pq, pi) ==
    LET n == Len(pq.items) - 1
        q == heapDown(Swap(pq, 0, n), pi, 0, n)
    IN [item |-> q.items[n + 1], pq |-> [q EXCEPT !.items = SubSeq(@, 1, n)]]

SetLessFunc_NoInit(pq, pi, lessFunc) == [pq EXCEPT !.lessFunc = lessFunc]
SetLessFunc(pq, pi, lessFunc) == heapInit([pq EXCEPT !.lessFunc = lessFunc], pi)

newTxPriorityQueue(sortByFee) ==
    [lessFunc |-> IF sortByFee THEN "txPQByFee" ELSE "txPQByPriority", items |-> << >>]


\* ------------------------------------------------------------- time, signing
minimumMedianTime_NoSecond(chainState) == chainState.MedianTime
minimumMedianTime(chainState) == chainState.MedianTime + 1

medianAdjustedTime(chainState, adjustedTime) ==
    LET minTimestamp == minimumMedianTime(chainState)
    IN IF adjustedTime < minTimestamp THEN minTimestamp ELSE adjustedTime

\* Header.Sign(validateKey): the signature covers every other header field.
HeaderDigest(h) == <<h.Version, h.PrevBlock, h.MerkleRoot, h.Timestamp, h.Bits, h.Height, h.Size>>
Sign(h, key) == [h EXCEPT !.Signature = [key |-> key, over |-> HeaderDigest(h)]]
validateKey == "validateKey"

\* ------------------------------------------------------------------- merkle
\* Transaction ids: a pool transaction is identified by its hash, the coinbase
\* by its content (output value, output script, lock time).
TxHash(msgTx) ==
    IF "Value" \in DOMAIN msgTx THEN <<"cb", msgTx.Value, msgTx.PkScript, msgTx.LockTime>>
    ELSE <<"tx", msgTx.hash>>
NilHash == <<"nil">>
HashMerkleBranches(left, right) == <<"node", left, right>>

RECURSIVE nextPowerOfTwoFrom(_, _)
nextPowerOfTwoFrom(p, n) == IF p >= n THEN p ELSE nextPowerOfTwoFrom(2 * p, n)
nextPowerOfTwo(n) == nextPowerOfTwoFrom(1, n)

RECURSIVE MerkleFill(_, _, _)
MerkleFill(arr, i, arraySize) ==
    IF i >= arraySize - 1 THEN arr
    ELSE LET l == arr[i + 1]
             r == arr[i + 2]
             parent == IF l = NilHash THEN NilHash
                       ELSE IF r = NilHash THEN HashMerkleBranches(l, l)
                       ELSE HashMerkleBranches(l, r)
         IN MerkleFill(Append(arr, parent), i + 2, arraySize)

\* blockchain.BuildMerkleTreeStore: the tree as an array, leaves first, padded
\* with nil to a power of two, the root last.
BuildMerkleTreeStore(hashes) ==
    LET nextPoT == nextPowerOfTwo(Len(hashes))
        leaves == [k \in 1..nextPoT |-> IF k <= Len(hashes) THEN hashes[k] ELSE NilHash]
    IN MerkleFill(leaves, 0, 2 * nextPoT - 1)

\* MerkleRoot: *merkles[len(merkles)-1]
MerkleRootOf_First(merkles) == merkles[1]
MerkleRootOf(merkles) == merkles[Len(merkles)]

\* ------------------------------------------------------------------ coinbase
createCoinbaseTx_NullScript(nextBlockHeight, subsidyAtHeight, addr) ==
    [Value |-> subsidyAtHeight,
     PkScript |-> IF addr # NoAddress THEN PayToAddrScript(addr) ELSE nullScript,
     LockTime |-> nextBlockHeight]
createCoinbaseTx(nextBlockHeight, subsidyAtHeight, addr) ==
    [Value |-> subsidyAtHeight,
     PkScript |-> IF addr # NoAddress THEN PayToAddrScript(addr) ELSE OpTrueScript,
     LockTime |-> nextBlockHeight]


\* -------------------------------------------------------------------- state
VARIABLES
    pc,             \* "mempoolLoop", "assembly", "done" (template returned), "error";
                    \* "queue" when the priority queue is exercised on its own
    policy,         \* g.policy
    payToAddress,   \* NoAddress or an address
    subsidy,        \* CalcBlockSubsidy(nextBlockHeight)
    best,           \* the BestSnapshot read by the running call
    clock,          \* the reading of timeSource.AdjustedTime() taken for the timestamp
    sourceTxns,     \* MiningDescs(): hashes of the pool transactions, in order
    idx,            \* position of mempoolLoop in sourceTxns
    coinbaseTx,
    prioItems,      \* the txPrioItem objects, by transaction hash
    dependers,      \* parent hash -> hashes of the items that depend on it
    priorityQueue,
    sortedByFee,
    blockUtxos,
    blockTxns,      \* 0 is the coinbase, else a pool transaction hash
    txFees,
    txSigOpCounts,
    blockSize,
    blockSigOps,
    totalFees,
    prioItem,       \* hash of the item popped by the last loop iteration
    msgBlock,
    template,
    updates,        \* UpdateBlockTime calls made on the returned block
    pushes,         \* heap.Push calls made so far, by transaction hash
    pops            \* heap.Pop results so far, by transaction hash

vars == <<pc, policy, payToAddress, subsidy, best, clock, sourceTxns, idx, coinbaseTx, prioItems, dependers, priorityQueue, sortedByFee, blockUtxos, blockTxns, txFees, txSigOpCounts, blockSize, blockSigOps, totalFees, prioItem, msgBlock, template, updates, pushes, pops>>

NoHeader == [Version |-> 0, PrevBlock |-> "", MerkleRoot |-> NilHash, Timestamp |-> 0, Bits |-> "", Height |-> 0, Size |-> 0, Signature |-> [key |-> "", over |-> << >>]]
NoBlock == [Header |-> NoHeader, Transactions |-> << >>]
NoTemplate == [Fees |-> << >>, SigOpCounts |-> << >>, Height |-> 0, ValidPayAddress |-> FALSE]

\* Height and median time of the best snapshot NewBlockTemplate starts from;
\* UpdateBlockTime reads later snapshots with any median time of MedianTimes.
TipHeights == {99}
TipMedianTimes == {5}
nextBlockHeight == best.Height + 1

\* g.txSource.HaveTransaction(hash)
HaveTransaction(hash) == \E k \in 1..Len(sourceTxns) : sourceTxns[k] = hash

\* State at the head of mempoolLoop: coinbase created, queue and slices set up.
Init ==
    /\ pc = "mempoolLoop"
    /\ policy \in Policies
    /\ payToAddress \in {NoAddress} \cup Addresses
    /\ subsidy \in Subsidies
    /\ best \in [Hash : {"tip"}, Height : TipHeights, MedianTime : TipMedianTimes]
    /\ clock = 0
    /\ sourceTxns \in Pools
    /\ idx = 1
    /\ coinbaseTx = createCoinbaseTx(best.Height + 1, subsidy, payToAddress)
    /\ prioItems = [h \in TxIds |-> NoItem]
    /\ dependers = [h \in AllHashes |-> {}]
    /\ sortedByFee = (policy.BlockPrioritySize = 0)
    /\ priorityQueue = newTxPriorityQueue(policy.BlockPrioritySize = 0)
    /\ blockUtxos = EmptyView
    /\ blockTxns = <<0>>
    /\ txFees = <<-1>>
    /\ txSigOpCounts = <<CountScriptSigOps(coinbaseTx.PkScript)>>
    /\ blockSize = 0
    /\ blockSigOps = 0
    /\ totalFees = 0
    /\ prioItem = 0
    /\ msgBlock = NoBlock
    /\ template = NoTemplate
    /\ updates = 0
    /\ pushes = [h \in TxIds |-> 0]
    /\ pops = [h \in TxIds |-> 0]

\* ------------------------------------------------------------- mempoolLoop
\* The loop over the inputs of tx (lines 553-585): records a dependency edge
\* for every input whose parent output is not available in the chain view but
\* whose parent is in the source pool; stops (discard) at the first input
\* whose parent is in neither.
RECURSIVE ScanInputs(_, _, _, _, _)
ScanInputs(tx, utxos, k, item, deps) ==
    IF k > Len(tx.ins) THEN [discard |-> FALSE, item |-> item, deps |-> deps]
    ELSE LET originHash == tx.ins[k][1]
         IN IF OutputMissing(utxos, tx.ins[k])
            THEN IF ~HaveTransaction(originHash)
                 THEN [discard |-> TRUE, item |-> item, deps |-> deps]
                 ELSE ScanInputs(tx, utxos, k + 1,
                                 [item EXCEPT !.hasDeps = TRUE, !.dependsOn = @ \cup {originHash}],
                                 [deps EXCEPT ![originHash] = @ \cup {tx.hash}])
            ELSE ScanInputs(tx, utxos, k + 1, item, deps)

\* prioItem.feePerKB = (txDesc.Fee * 1000) / int64(txSize)
FeePerKB(fee, txSize) == (fee * 1000) \div txSize

\* Lines 542-547: FetchUtxoView returned an error.
FetchFails_Ignored(tx) == FALSE
FetchFails(tx) == tx.kind = "fetchErr"

MempoolLoop ==
    /\ pc = "mempoolLoop"
    /\ idx <= Len(sourceTxns)
    /\ idx' = idx + 1
    /\ LET tx == TxCatalog[sourceTxns[idx]]
           utxos == FetchUtxoView(tx, sourceTxns)
           scan == ScanInputs(tx, utxos, 1, [ZeroItem EXCEPT !.tx = tx.hash], dependers)
           item == [scan.item EXCEPT !.priority = tx.prio,
                                     !.feePerKB = FeePerKB(tx.fee, tx.size),
                                     !.fee = tx.fee,
                                     !.isAdmin = tx.admin]
       IN IF tx.kind \in {"coinbase", "nonfinal"} \/ FetchFails(tx)
          THEN UNCHANGED <<prioItems, dependers, priorityQueue, blockUtxos, pushes>>
          ELSE IF scan.discard
          THEN /\ prioItems' = [prioItems EXCEPT ![tx.hash] = scan.item]
               /\ dependers' = scan.deps
               /\ UNCHANGED <<priorityQueue, blockUtxos, pushes>>
          ELSE /\ prioItems' = [prioItems EXCEPT ![tx.hash] = item]
               /\ dependers' = scan.deps
               /\ priorityQueue' = IF ~item.hasDeps
                                   THEN heapPush(priorityQueue, prioItems', tx.hash)
                                   ELSE priorityQueue
               /\ pushes' = IF ~item.hasDeps THEN [pushes EXCEPT ![tx.hash] = @ + 1] ELSE pushes
               /\ blockUtxos' = mergeUtxoView(blockUtxos, utxos)
    /\ UNCHANGED <<pc, policy, payToAddress, subsidy, best, clock, sourceTxns, coinbaseTx, sortedByFee, blockTxns, txFees, txSigOpCounts, blockSize, blockSigOps, totalFees, prioItem, msgBlock, template, updates, pops>>

\* Lines 614-619: the running counters before the assembly loop.
StartAssembly ==
    /\ pc = "mempoolLoop"
    /\ idx > Len(sourceTxns)
    /\ pc' = "assembly"
    /\ blockSize' = (blockHeaderOverhead + CoinbaseSerializeSize(coinbaseTx)) % UintMod
    /\ blockSigOps' = txSigOpCounts[1]
    /\ totalFees' = 0
    /\ UNCHANGED <<policy, payToAddress, subsidy, best, clock, sourceTxns, idx, coinbaseTx, prioItems, dependers, priorityQueue, sortedByFee, blockUtxos, blockTxns, txFees, txSigOpCounts, prioItem, msgBlock, template, updates, pushes, pops>>


\* ------------------------------------------------------------ assembly loop
\* Lines 631-639: blockPlusTxSize < blockSize || blockPlusTxSize >= BlockMaxSize
SizeGateSkips_OverflowOnly(curSize, txSize, maxSize) ==
    (curSize + txSize) % UintMod < curSize
SizeGateSkips_NoWrapCheck(curSize, txSize, maxSize) ==
    (curSize + txSize) % UintMod >= maxSize
SizeGateSkips(curSize, txSize, maxSize) ==
    LET blockPlusTxSize == (curSize + txSize) % UintMod
    IN blockPlusTxSize < curSize \/ blockPlusTxSize >= maxSize

\* Lines 644-645 and 660-661.
SigOpsGateSkips_OverflowOnly(curSigOps, numSigOps) ==
    curSigOps + numSigOps < curSigOps
SigOpsGateSkips(curSigOps, numSigOps) ==
    curSigOps + numSigOps < curSigOps \/ curSigOps + numSigOps > MaxSigOpsPerBlock

\* Lines 671-673.
FreeTxSkips_MaxSize(byFee, feePerKB, blockPlusTxSize, pol) ==
    byFee /\ feePerKB < pol.TxMinFreeFee /\ blockPlusTxSize >= pol.BlockMaxSize
FreeTxSkips(byFee, feePerKB, blockPlusTxSize, pol) ==
    byFee /\ feePerKB < pol.TxMinFreeFee /\ blockPlusTxSize >= pol.BlockMinSize

\* Lines 687-688.
SwitchesToFee_Again(byFee, blockPlusTxSize, priority, pol) ==
    blockPlusTxSize >= pol.BlockPrioritySize \/ priority <= MinHighPriority
SwitchesToFee(byFee, blockPlusTxSize, priority, pol) ==
    ~byFee /\ (blockPlusTxSize >= pol.BlockPrioritySize \/ priority <= MinHighPriority)

\* Lines 705-706.
PushesBack_Inclusive(blockPlusTxSize, priority, pol) ==
    blockPlusTxSize >= pol.BlockPrioritySize \/ priority <= MinHighPriority
PushesBack(blockPlusTxSize, priority, pol) ==
    blockPlusTxSize > pol.BlockPrioritySize \/ priority < MinHighPriority

\* Line 659: numSigOps += int64(numP2SHSigOps)
TotalSigOps_BaseOnly(numSigOps, numP2SHSigOps) == numSigOps
TotalSigOps(numSigOps, numP2SHSigOps) == numSigOps + numP2SHSigOps

\* The orders in which `range deps` may visit the dependent items.
Orderings(S) == {s \in [1..Cardinality(S) -> S] : \A i, j \in 1..Cardinality(S) : i # j => s[i] # s[j]}

\* Lines 764-771: delete the accepted parent from each dependent item and push
\* the item when no dependency is left.
RECURSIVE Promote_Always(_, _, _, _, _)
Promote_Always(order, k, parent, pi, pq) ==
    IF k > Len(order) THEN [pi |-> pi, pq |-> pq]
    ELSE LET pi2 == [pi EXCEPT ![order[k]].dependsOn = @ \ {parent}]
         IN Promote_Always(order, k + 1, parent, pi2, heapPush(pq, pi2, order[k]))
RECURSIVE Promote_NoDelete(_, _, _, _, _)
Promote_NoDelete(order, k, parent, pi, pq) ==
    IF k > Len(order) THEN [pi |-> pi, pq |-> pq]
    ELSE LET pq2 == IF pi[order[k]].dependsOn = {} THEN heapPush(pq, pi, order[k]) ELSE pq
         IN Promote_NoDelete(order, k + 1, parent, pi, pq2)
RECURSIVE Promote(_, _, _, _, _)
Promote(order, k, parent, pi, pq) ==
    IF k > Len(order) THEN [pi |-> pi, pq |-> pq]
    ELSE LET pi2 == [pi EXCEPT ![order[k]].dependsOn = @ \ {parent}]
             pq2 == IF pi2[order[k]].dependsOn = {} THEN heapPush(pq, pi2, order[k]) ELSE pq
         IN Promote(order, k + 1, parent, pi2, pq2)

\* The locals of the assembly loop at the head of an iteration.
LoopState ==
    [priorityQueue |-> priorityQueue, prioItems |-> prioItems, sortedByFee |-> sortedByFee,
     blockUtxos |-> blockUtxos, blockTxns |-> blockTxns, txFees |-> txFees,
     txSigOpCounts |-> txSigOpCounts, blockSize |-> blockSize, blockSigOps |-> blockSigOps,
     totalFees |-> totalFees, prioItem |-> prioItem, pushes |-> pushes, pops |-> pops]

\* Line 629: deps of the transaction the next heap.Pop returns.
PoppedDeps(st) == dependers[heapPop(st.priorityQueue, st.prioItems).item]

Occurrences(items, h) == Cardinality({k \in 1..Len(items) : items[k] = h})

\* Lines 713-740: CheckTransactionInputs, CheckTransactionOutputs or
\* ValidateTransactionScripts returns an error.
ValidationFails_InputsOnly(tx, view) == ~CheckTransactionInputs(tx, view)
ValidationFails(tx, view) ==
    \/ ~CheckTransactionInputs(tx, view)
    \/ tx.check \in {"badOutputs", "badScripts"}

\* Lines 622-772: one iteration of the loop, `range deps` visiting the
\* dependent items in the given order.
LoopIteration(st, order) ==
    LET pop == heapPop(st.priorityQueue, st.prioItems)
        it == st.prioItems[pop.item]
        tx == TxCatalog[it.tx]
        txSize == tx.size % UintMod
        blockPlusTxSize == (st.blockSize + txSize) % UintMod
        numSigOps == TotalSigOps(tx.sigOps, tx.p2sh)
        switch == SwitchesToFee(st.sortedByFee, blockPlusTxSize, it.priority, policy)
        swapped == IF switch THEN SetLessFunc(pop.pq, st.prioItems, "txPQByFee") ELSE pop.pq
        popped == [st EXCEPT !.prioItem = pop.item, !.pops[pop.item] = @ + 1]
    IN IF \/ SizeGateSkips(st.blockSize, txSize, policy.BlockMaxSize)
          \/ SigOpsGateSkips(st.blockSigOps, tx.sigOps)
          \/ tx.check = "p2shErr"
          \/ SigOpsGateSkips(st.blockSigOps, numSigOps)
          \/ FreeTxSkips(st.sortedByFee, it.feePerKB, blockPlusTxSize, policy)
       THEN [popped EXCEPT !.priorityQueue = pop.pq]
       ELSE IF switch /\ PushesBack(blockPlusTxSize, it.priority, policy)
       THEN [popped EXCEPT !.sortedByFee = TRUE,
                           !.priorityQueue = heapPush(swapped, st.prioItems, pop.item),
                           !.pushes[pop.item] = @ + 1]
       ELSE IF ValidationFails(tx, st.blockUtxos)
       THEN [popped EXCEPT !.sortedByFee = (st.sortedByFee \/ switch),
                           !.priorityQueue = swapped]
       ELSE LET promoted == Promote(order, 1, tx.hash, st.prioItems, swapped)
            IN [popped EXCEPT !.sortedByFee = (st.sortedByFee \/ switch),
                               !.blockUtxos = spendTransaction(st.blockUtxos, tx),
                               !.blockTxns = Append(st.blockTxns, tx.hash),
                               !.blockSize = (st.blockSize + txSize) % UintMod,
                               !.blockSigOps = st.blockSigOps + numSigOps,
                               !.totalFees = st.totalFees + it.fee,
                               !.txFees = Append(st.txFees, it.fee),
                               !.txSigOpCounts = Append(st.txSigOpCounts, numSigOps),
                               !.prioItems = promoted.pi,
                               !.priorityQueue = promoted.pq,
                               !.pushes = [h \in TxIds |-> st.pushes[h] + Occurrences(promoted.pq.items, h) - Occurrences(swapped.items, h)]]

AssemblyLoop ==
    /\ pc = "assembly"
    /\ Len(priorityQueue.items) > 0
    /\ \E order \in Orderings(PoppedDeps(LoopState)) :
          LET next == LoopIteration(LoopState, order)
          IN /\ priorityQueue' = next.priorityQueue
             /\ prioItems' = next.prioItems
             /\ sortedByFee' = next.sortedByFee
             /\ blockUtxos' = next.blockUtxos
             /\ blockTxns' = next.blockTxns
             /\ txFees' = next.txFees
             /\ txSigOpCounts' = next.txSigOpCounts
             /\ blockSize' = next.blockSize
             /\ blockSigOps' = next.blockSigOps
             /\ totalFees' = next.totalFees
             /\ prioItem' = next.prioItem
             /\ pushes' = next.pushes
             /\ pops' = next.pops
    /\ UNCHANGED <<pc, policy, payToAddress, subsidy, best, clock, sourceTxns, idx, coinbaseTx, dependers, msgBlock, template, updates>>

\* ----------------------------------------------------------------- finalizer
\* Lines 777-778: replace the worst-case varint reservation by the actual one.
VarIntFixup(curSize, numTxns) ==
    (curSize - (MaxVarIntPayload - VarIntSerializeSize(numTxns))) % UintMod

\* Lines 785-794: a coinbase paying zero gets the null-data script and the
\* block size shrinks by the difference of the script lengths.
NullScriptShrink_OnZeroFees(cb, fees, curSize) ==
    IF fees = 0
    THEN [cb |-> [cb EXCEPT !.PkScript = nullScript], blockSize |-> (curSize - (Len(cb.PkScript) - Len(nullScript))) % UintMod]
    ELSE [cb |-> cb, blockSize |-> curSize]
NullScriptShrink_SizeKept(cb, fees, curSize) ==
    IF cb.Value = 0
    THEN [cb |-> [cb EXCEPT !.PkScript = nullScript], blockSize |-> curSize]
    ELSE [cb |-> cb, blockSize |-> curSize]
NullScriptShrink(cb, fees, curSize) ==
    IF cb.Value = 0
    THEN [cb |-> [cb EXCEPT !.PkScript = nullScript], blockSize |-> (curSize - (Len(cb.PkScript) - Len(nullScript))) % UintMod]
    ELSE [cb |-> cb, blockSize |-> curSize]

\* Line 779: coinbaseTx.MsgTx().TxOut[0].Value += totalFees
PayFees_Assign(cb, total) == [cb EXCEPT !.Value = total]
PayFees(cb, total) == [cb EXCEPT !.Value = @ + total]

\* Line 780: txFees[0] = -totalFees
SettleFees_Skipped(fees, total) == fees
SettleFees(fees, total) == [fees EXCEPT ![1] = -total]

\* The transactions of the block body: blockTxns with the coinbase as it is now.
BlockBody(txns, cb) == [k \in 1..Len(txns) |-> IF txns[k] = 0 THEN cb ELSE TxCatalog[txns[k]]]
TxHashes(body) == [k \in 1..Len(body) |-> TxHash(body[k])]

Finalize ==
    /\ pc = "assembly"
    /\ Len(priorityQueue.items) = 0
    /\ \E now \in AdjustedTimes, outcome \in {"ok", "difficultyErr", "connectErr"} :
        LET sized == VarIntFixup(blockSize, Len(blockTxns))
            paid == PayFees(coinbaseTx, totalFees)
            shrunk == NullScriptShrink(paid, totalFees, sized)
            ts == medianAdjustedTime(best, now)
            body == BlockBody(blockTxns, shrunk.cb)
            merkles == BuildMerkleTreeStore(TxHashes(body))
            header == Sign([Version |-> generatedBlockVersion,
                            PrevBlock |-> best.Hash,
                            MerkleRoot |-> MerkleRootOf(merkles),
                            Timestamp |-> ts,
                            Bits |-> "reqDifficulty",
                            Height |-> nextBlockHeight,
                            Size |-> shrunk.blockSize,
                            Signature |-> NoHeader.Signature], validateKey)
        IN /\ clock' = now
           /\ blockSize' = shrunk.blockSize
           /\ coinbaseTx' = shrunk.cb
           /\ txFees' = SettleFees(txFees, totalFees)
           /\ IF outcome = "ok"
              THEN /\ pc' = "done"
                   /\ msgBlock' = [Header |-> header, Transactions |-> body]
                   /\ template' = [Fees |-> txFees', SigOpCounts |-> txSigOpCounts, Height |-> nextBlockHeight, ValidPayAddress |-> (payToAddress # NoAddress)]
              ELSE /\ pc' = "error"
                   /\ UNCHANGED <<msgBlock, template>>
    /\ UNCHANGED <<policy, payToAddress, subsidy, best, sourceTxns, idx, prioItems, dependers, priorityQueue, sortedByFee, blockUtxos, blockTxns, txSigOpCounts, blockSigOps, totalFees, prioItem, updates, pushes, pops>>

\* ----------------------------------------------------------- UpdateBlockTime
\* Lines 863-866: set the timestamp and sign again.
UpdatedHeader_Retarget(h, newTimestamp, key) == Sign([h EXCEPT !.Timestamp = newTimestamp, !.Bits = "retarget"], key)
UpdatedHeader(h, newTimestamp, key) == Sign([h EXCEPT !.Timestamp = newTimestamp], key)

UpdateBlockTime ==
    /\ pc = "done"
    /\ updates < MaxUpdates
    /\ updates' = updates + 1
    /\ \E median \in MedianTimes, now \in AdjustedTimes :
        /\ best' = [best EXCEPT !.MedianTime = median]
        /\ clock' = now
        /\ msgBlock' = [msgBlock EXCEPT !.Header = UpdatedHeader(@, medianAdjustedTime(best', now), validateKey)]
    /\ UNCHANGED <<pc, policy, payToAddress, subsidy, sourceTxns, idx, coinbaseTx, prioItems, dependers, priorityQueue, sortedByFee, blockUtxos, blockTxns, txFees, txSigOpCounts, blockSize, blockSigOps, totalFees, prioItem, template, pushes, pops>>

Next == MempoolLoop \/ StartAssembly \/ AssemblyLoop \/ Finalize \/ UpdateBlockTime

Spec == Init /\ [][Next]_vars

\* One call of NewBlockTemplate with a positive subsidy. The call runs to
\* completion: each loop runs its next iteration whenever its condition holds
\* and the code after a loop runs once it does not, so each step of the call is
\* weakly fair. For the assembly loop and the finalizer WF_vars(A) is written
\* out as []<>~ENABLED <<A>>_vars \/ []<><<A>>_vars with the guard of A for
\* ENABLED <<A>>_vars: A changes pops, respectively pc, whenever its guard holds.
TemplateInit == Init /\ subsidy > 0
TemplateNext == MempoolLoop \/ StartAssembly \/ AssemblyLoop \/ Finalize
LoopFairness ==
    []<>~(pc = "assembly" /\ Len(priorityQueue.items) > 0) \/ []<><<AssemblyLoop>>_vars
FinalizeFairness ==
    []<>~(pc = "assembly" /\ Len(priorityQueue.items) = 0) \/ []<><<Finalize>>_vars
TemplateSpec ==
    /\ TemplateInit /\ [][TemplateNext]_vars
    /\ WF_vars(MempoolLoop) /\ WF_vars(StartAssembly)
    /\ LoopFairness /\ FinalizeFairness

\* ------------------------------------------------- the priority queue alone
\* Any sequence of heap.Push, heap.Pop and SetLessFunc on a txPriorityQueue
\* whose items are the prio items of the transactions of sourceTxns: non-admin
\* items with distinct and with tied priorities and fees, alone or with two
\* admin items.
QueueCandidates == {1, 2, 3, 7, 8, 14, 4, 16}
QueuePools == {<<1, 2, 3, 7, 8, 14>>, <<1, 2, 3, 7, 8, 14, 4, 16>>}
CandidateItem(h) ==
    [ZeroItem EXCEPT !.tx = h,
                     !.priority = TxCatalog[h].prio,
                     !.feePerKB = FeePerKB(TxCatalog[h].fee, TxCatalog[h].size),
                     !.fee = TxCatalog[h].fee,
                     !.isAdmin = TxCatalog[h].admin]

QueueInit ==
    /\ pc = "queue"
    /\ policy = [BlockMaxSize |-> 100, BlockMinSize |-> 0, BlockPrioritySize |-> 0, TxMinFreeFee |-> 1500]
    /\ payToAddress = NoAddress
    /\ subsidy = 0
    /\ best = [Hash |-> "tip", Height |-> 99, MedianTime |-> 5]
    /\ clock = 0
    /\ sourceTxns \in QueuePools
    /\ idx = 1
    /\ coinbaseTx = createCoinbaseTx(best.Height + 1, subsidy, payToAddress)
    /\ prioItems = [h \in TxIds |-> IF h \in QueueCandidates THEN CandidateItem(h) ELSE NoItem]
    /\ dependers = [h \in AllHashes |-> {}]
    /\ \E sortByFee \in BOOLEAN :
          /\ sortedByFee = sortByFee
          /\ priorityQueue = newTxPriorityQueue(sortByFee)
    /\ blockUtxos = EmptyView
    /\ blockTxns = <<0>>
    /\ txFees = <<-1>>
    /\ txSigOpCounts = <<0>>
    /\ blockSize = 0
    /\ blockSigOps = 0
    /\ totalFees = 0
    /\ prioItem = 0
    /\ msgBlock = NoBlock
    /\ template = NoTemplate
    /\ updates = 0
    /\ pushes = [h \in TxIds |-> 0]
    /\ pops = [h \in TxIds |-> 0]

QueueUnchanged == UNCHANGED <<pc, policy, payToAddress, subsidy, best, clock, sourceTxns, idx, coinbaseTx, prioItems, dependers, blockUtxos, blockTxns, txFees, txSigOpCounts, blockSize, blockSigOps, totalFees, msgBlock, template, updates, pushes, pops>>

QueuePush ==
    /\ pc = "queue"
    /\ Len(priorityQueue.items) < MaxQueue
    /\ \E h \in {sourceTxns[k] : k \in 1..Len(sourceTxns)} :
          /\ \A k \in 1..Len(priorityQueue.items) : priorityQueue.items[k] # h
          /\ priorityQueue' = heapPush(priorityQueue, prioItems, h)
    /\ UNCHANGED <<sortedByFee, prioItem>>
    /\ QueueUnchanged

QueuePop ==
    /\ pc = "queue"
    /\ Len(priorityQueue.items) > 0
    /\ LET pop == heapPop(priorityQueue, prioItems)
       IN /\ prioItem' = pop.item
          /\ priorityQueue' = pop.pq
    /\ UNCHANGED sortedByFee
    /\ QueueUnchanged

QueueSetLessFunc ==
    /\ pc = "queue"
    /\ \E sortByFee \in BOOLEAN :
          /\ sortedByFee' = sortByFee
          /\ priorityQueue' = SetLessFunc(priorityQueue, prioItems, IF sortByFee THEN "txPQByFee" ELSE "txPQByPriority")
    /\ UNCHANGED prioItem
    /\ QueueUnchanged

QueueNext == QueuePush \/ QueuePop \/ QueueSetLessFunc

QueueSpec == QueueInit /\ [][QueueNext]_vars


\* =================================================================== claims
RECURSIVE SumSeq(_)
SumSeq(q) == IF q = << >> THEN 0 ELSE q[1] + SumSeq(Tail(q))

QueueHashes == {priorityQueue.items[k] : k \in 1..Len(priorityQueue.items)}
BlockHashes == {blockTxns[k] : k \in 2..Len(blockTxns)}
PoolHashes == {sourceTxns[k] : k \in 1..Len(sourceTxns)}
Returned == pc = "done"

\* Pool transactions that transaction h spends from and that the chain view
\* does not hold (pending parents), and their transitive closure.
PendingParents(h) == {TxCatalog[h].ins[k][1] : k \in 1..Len(TxCatalog[h].ins)} \cap PoolHashes
RECURSIVE AncestorsWithin(_, _)
AncestorsWithin(S, n) ==
    IF n = 0 THEN S ELSE AncestorsWithin(S \cup UNION {PendingParents(x) : x \in S}, n - 1)
PendingAncestors(h) == AncestorsWithin(PendingParents(h), Len(TxCatalog))

\* The Merkle root of a list of hashes by its definition: hash the list pairwise,
\* level by level, pairing a last odd node with itself.
RECURSIVE MerkleRootByLevels(_)
MerkleRootByLevels(hashes) ==
    IF Len(hashes) = 1 THEN hashes[1]
    ELSE MerkleRootByLevels(
            [k \in 1..((Len(hashes) + 1) \div 2) |->
                HashMerkleBranches(hashes[2 * k - 1],
                                   IF 2 * k <= Len(hashes) THEN hashes[2 * k] ELSE hashes[2 * k - 1])])

\* Fees and sizes of the pool transactions of the block, from the pool itself.
PoolFeesOf(txns) == [k \in 1..(Len(txns) - 1) |-> TxCatalog[txns[k + 1]].fee]
PoolSizesOf(txns) == [k \in 1..(Len(txns) - 1) |-> TxCatalog[txns[k + 1]].size]
InitialCoinbaseSize == CoinbaseSerializeSize(createCoinbaseTx(nextBlockHeight, subsidy, payToAddress))
\* The running block size after the loop: header overhead, coinbase as created,
\* accepted transactions.
RunningSize == blockHeaderOverhead + InitialCoinbaseSize + SumSeq(PoolSizesOf(blockTxns))

\* C1: at every extraction, if the queue holds an admin candidate then the
\* candidate popped is an admin candidate (under either comparator, whatever
\* the push order).
C1_AdminPoppedFirst ==
    [][(pc = "assembly" /\ \E h \in QueueHashes : prioItems[h].isAdmin) => prioItems[prioItem'].isAdmin]_vars

\* C2: every pending ancestor of an included transaction is in the block at a
\* strictly smaller index; a transaction whose pending ancestor is not in the
\* block is not included.
C2_ParentsFirst ==
    /\ \A k \in 2..Len(blockTxns) :
          \A p \in PendingAncestors(blockTxns[k]) : \E j \in 2..(k - 1) : blockTxns[j] = p
    /\ Returned =>
          \A k \in 2..Len(msgBlock.Transactions) :
             \A p \in PendingAncestors(msgBlock.Transactions[k].hash) :
                \E j \in 2..(k - 1) : msgBlock.Transactions[j].hash = p
C2_Witness ==
    /\ Returned
    /\ blockTxns = <<0, 2, 3, 7>>

\* C3: in a returned template the fees sum to zero: Fees[0] is the negative of
\* the sum of the other entries, which are the fees of the accepted transactions.
C3_FeesSumToZero ==
    Returned =>
        /\ SumSeq(template.Fees) = 0
        /\ template.Fees[1] = -SumSeq(Tail(template.Fees))
        /\ template.Fees[1] = -SumSeq(PoolFeesOf(blockTxns))
C3_Witness ==
    /\ Returned
    /\ Len(template.Fees) >= 3
    /\ template.Fees[1] < -1

\* C4: the fee list, the sigop list and the transaction list have the same
\* length after every loop iteration and in the returned template, and entry
\* i >= 1 is the fee and the base + P2SH sigop count of transaction i.
C4_ListsAligned ==
    /\ Len(txFees) = Len(blockTxns)
    /\ Len(txSigOpCounts) = Len(blockTxns)
    /\ \A k \in 2..Len(blockTxns) :
          /\ txFees[k] = TxCatalog[blockTxns[k]].fee
          /\ txSigOpCounts[k] = TxCatalog[blockTxns[k]].sigOps + TxCatalog[blockTxns[k]].p2sh
    /\ Returned =>
          /\ Len(template.Fees) = Len(msgBlock.Transactions)
          /\ Len(template.SigOpCounts) = Len(msgBlock.Transactions)
          /\ \A k \in 2..Len(msgBlock.Transactions) :
                /\ template.Fees[k] = msgBlock.Transactions[k].fee
                /\ template.SigOpCounts[k] = msgBlock.Transactions[k].sigOps + msgBlock.Transactions[k].p2sh
C4_Witness ==
    /\ Returned
    /\ Len(msgBlock.Transactions) >= 3
    /\ \E k \in 2..Len(msgBlock.Transactions) : msgBlock.Transactions[k].p2sh > 0

\* C5 as stated: the header size of a returned template is at most
\* policy.BlockMaxSize, whatever the policy and the pool.
C5_SizeWithinMax ==
    Returned => msgBlock.Header.Size <= policy.BlockMaxSize
\* C5 amended: the header size is at most policy.BlockMaxSize whenever a pool
\* transaction was accepted; when none was, it is the size of the block that
\* holds the coinbase alone (header payload, one-byte count, coinbase), which
\* is above BlockMaxSize only if the policy sets BlockMaxSize below it.
C5_SizeWithinMaxOrCoinbaseOnly ==
    Returned =>
        /\ Len(blockTxns) > 1 => msgBlock.Header.Size < policy.BlockMaxSize
        /\ Len(blockTxns) = 1 =>
              msgBlock.Header.Size = MaxBlockHeaderPayload + VarIntSerializeSize(1) + CoinbaseSerializeSize(msgBlock.Transactions[1])
C5_Witness ==
    /\ Returned
    /\ Len(blockTxns) > 1
    /\ \E h \in PoolHashes \ BlockHashes :
          /\ prioItems[h].tx = h
          /\ ~prioItems[h].hasDeps
          /\ RunningSize < policy.BlockMaxSize
          /\ RunningSize + TxCatalog[h].size >= policy.BlockMaxSize

\* C6: the sigop counts of a returned template sum to at most
\* MaxSigOpsPerBlock, and blockSigOps equals the sum of the list after every
\* acceptance.
C6_SigOpsWithinMax ==
    /\ pc \in {"assembly", "done", "error"} => blockSigOps = SumSeq(txSigOpCounts)
    /\ Returned => SumSeq(template.SigOpCounts) <= MaxSigOpsPerBlock
C6_Witness ==
    /\ Returned
    /\ SumSeq(template.SigOpCounts) = MaxSigOpsPerBlock
    /\ \E h \in PoolHashes \ BlockHashes :
          /\ prioItems[h].tx = h
          /\ PendingParents(h) \subseteq BlockHashes
          /\ TxCatalog[h].sigOps > 0

\* C7: the header timestamp written by NewBlockTemplate and by UpdateBlockTime
\* is the later of the adjusted time and one second after the median time of
\* the snapshot read by that call.
C7_TimestampAfterMedian ==
    Returned =>
        /\ msgBlock.Header.Timestamp = (IF clock >= best.MedianTime + 1 THEN clock ELSE best.MedianTime + 1)
        /\ msgBlock.Header.Timestamp >= best.MedianTime + 1
C7_Witness ==
    /\ Returned
    /\ updates >= 1
    /\ clock < best.MedianTime

\* C8: the header Merkle root is the root of the Merkle tree of the
\* transactions of the block body, the coinbase carrying its final value and
\* output script.
C8_MerkleRootOfBody ==
    Returned =>
        /\ msgBlock.Header.MerkleRoot = MerkleRootByLevels(TxHashes(msgBlock.Transactions))
        /\ msgBlock.Transactions[1] = coinbaseTx
        /\ msgBlock.Transactions[1].Value = subsidy + SumSeq(PoolFeesOf(blockTxns))
        /\ \A k \in 2..Len(blockTxns) : msgBlock.Transactions[k] = TxCatalog[blockTxns[k]]
        /\ Len(msgBlock.Transactions) = Len(blockTxns)
C8_Witness ==
    /\ Returned
    /\ Len(msgBlock.Transactions) = 3
    /\ msgBlock.Transactions[1].Value > subsidy

\* C9: without a pay-to address the coinbase output script is ALWAYS-TRUE or
\* RETURN; it is RETURN exactly when the final coinbase value (subsidy plus
\* fees) is zero, and then the header size is the running size less the
\* difference of the script lengths and the fees sum to zero.
C9_NullScriptWhenZero ==
    (Returned /\ payToAddress = NoAddress) =>
        LET cb == msgBlock.Transactions[1]
            running == RunningSize - (MaxVarIntPayload - VarIntSerializeSize(Len(msgBlock.Transactions)))
        IN /\ cb.PkScript \in {OpTrueScript, nullScript}
           /\ cb.Value = subsidy + SumSeq(PoolFeesOf(blockTxns))
           /\ (cb.PkScript = nullScript) <=> (cb.Value = 0)
           /\ cb.PkScript = nullScript =>
                 /\ msgBlock.Header.Size = running - (Len(OpTrueScript) - Len(nullScript))
                 /\ SumSeq(Tail(template.Fees)) = 0
C9_Witness ==
    /\ Returned
    /\ payToAddress = NoAddress
    /\ msgBlock.Transactions[1].PkScript = nullScript
    /\ Len(msgBlock.Transactions) >= 2

RECURSIVE FinalBlocks(_)
FinalBlocks(st) ==
    IF Len(st.priorityQueue.items) = 0
    THEN {[blockTxns |-> st.blockTxns, txFees |-> st.txFees, txSigOpCounts |-> st.txSigOpCounts,
           blockSize |-> st.blockSize, totalFees |-> st.totalFees]}
    ELSE UNION {FinalBlocks(LoopIteration(st, order)) : order \in Orderings(PoppedDeps(st))}

\* C11: from the same snapshot, pool (in the same iteration order), policy and
\* time, every run ends with the same block: whatever the order in which the
\* children of an accepted parent are promoted and whatever the ties, the loop
\* has a single possible result.
C11_Deterministic ==
    pc = "assembly" => Cardinality(FinalBlocks(LoopState)) = 1

\* Transactions on a cycle of the pending-parent relation, and the pool
\* transactions that are on a cycle or descend from one.
OnCycle(h) == h \in PendingAncestors(h)
CycleBound == {h \in PoolHashes : OnCycle(h) \/ \E a \in PendingAncestors(h) : OnCycle(a)}

\* C12: a transaction on a dependency cycle of the pool (or spending its own
\* output), and every descendant of one, is never pushed into the queue and
\* never in the block, also of a returned template.
C12_CyclesExcluded ==
    \A h \in CycleBound :
        /\ pushes[h] = 0
        /\ h \notin QueueHashes
        /\ h \notin BlockHashes
        /\ Returned => \A k \in 2..Len(msgBlock.Transactions) : msgBlock.Transactions[k].hash # h

\* C13 as stated: with an empty source pool the returned block holds the
\* coinbase alone, the fee list is [0] and, when payToAddress is nil, the
\* coinbase output script is the RETURN script.
C13_EmptyPoolNullScript ==
    (Returned /\ sourceTxns = << >>) =>
        /\ Len(msgBlock.Transactions) = 1
        /\ template.Fees = <<0>>
        /\ payToAddress = NoAddress => msgBlock.Transactions[1].PkScript = nullScript
\* C13 amended: with an empty source pool the returned block holds the
\* coinbase alone, paying the subsidy, the fee list is [0] and, when
\* payToAddress is nil, the coinbase output script is the RETURN script if the
\* subsidy is zero and the ALWAYS-TRUE script otherwise.
C13_EmptyPoolCoinbaseOnly ==
    (Returned /\ sourceTxns = << >>) =>
        /\ Len(msgBlock.Transactions) = 1
        /\ "Value" \in DOMAIN msgBlock.Transactions[1]
        /\ msgBlock.Transactions[1].Value = subsidy
        /\ template.Fees = <<0>>
        /\ payToAddress = NoAddress =>
              msgBlock.Transactions[1].PkScript = (IF subsidy = 0 THEN nullScript ELSE OpTrueScript)
C13_Witness ==
    /\ Returned
    /\ sourceTxns = << >>
    /\ payToAddress = NoAddress
    /\ subsidy = 0
    /\ msgBlock.Transactions[1].PkScript = nullScript
    /\ template.Fees = <<0>>

\* C14: in a returned template the coinbase output value is the subsidy plus
\* the fees of the included pool transactions and of no other candidate, and
\* Fees[0] is the negative of that sum of fees.
C14_CoinbaseValue ==
    Returned =>
        LET included == {sourceTxns[k] : k \in 1..Len(sourceTxns)} \cap {msgBlock.Transactions[k].hash : k \in 2..Len(msgBlock.Transactions)}
            fees == SumSeq([k \in 1..(Len(msgBlock.Transactions) - 1) |-> TxCatalog[msgBlock.Transactions[k + 1].hash].fee])
        IN /\ msgBlock.Transactions[1].Value = subsidy + fees
           /\ template.Fees[1] = -fees
           /\ Cardinality(included) = Len(msgBlock.Transactions) - 1
C14_Witness ==
    /\ Returned
    /\ subsidy > 0
    /\ blockTxns = <<0, 1, 2>>
    /\ msgBlock.Transactions[1].Value = subsidy + 140
    /\ template.Fees[1] = -140
    /\ \E h \in PoolHashes \ BlockHashes : TxCatalog[h].fee > 0 /\ pops[h] > 0

FetchFailures == {h \in PoolHashes : TxCatalog[h].kind = "fetchErr"}

\* C15 as stated: when the chain UTXO fetch fails for a pool transaction the
\* call ends with an error and returns no template.
C15_FetchFailureReported ==
    Returned => FetchFailures = {}
\* C15 amended: a failing chain UTXO fetch only drops that transaction: it
\* gets no prio item, is never queued and never in the block, the scan goes on
\* through the whole pool and the template is still returned; an error ends
\* the call only after the assembly loop (difficulty query, final block
\* check), and then no template is returned.
C15_FetchFailureSkipsTx ==
    /\ \A h \in FetchFailures :
          /\ prioItems[h] = NoItem
          /\ pushes[h] = 0
          /\ h \notin QueueHashes
          /\ h \notin BlockHashes
    /\ pc = "error" =>
          /\ idx > Len(sourceTxns)
          /\ Len(priorityQueue.items) = 0
          /\ template = NoTemplate
          /\ msgBlock = NoBlock
C15_Witness ==
    /\ Returned
    /\ Len(sourceTxns) >= 2
    /\ sourceTxns[1] \in FetchFailures
    /\ BlockHashes # {}
    /\ Len(template.Fees) = Len(blockTxns)

\* Pool transactions with an input whose parent output is neither unspent in
\* the confirmed chain nor the output of a transaction of the source pool.
UnknownParent(h) ==
    \E k \in 1..Len(TxCatalog[h].ins) :
        LET originHash == TxCatalog[h].ins[k][1]
            originIndex == TxCatalog[h].ins[k][2]
        IN /\ originHash \notin PoolHashes
           /\ originHash \notin ChainHashes \/ originIndex \notin ChainUnspent[originHash]

\* C16: a candidate with an input whose parent is unknown (not unspent in the
\* chain view, not in the source pool) is never pushed into the queue and
\* never in the block, wherever that input stands among its inputs.
C16_UnknownParentDiscarded ==
    \A h \in PoolHashes :
        UnknownParent(h) =>
            /\ pushes[h] = 0
            /\ h \notin QueueHashes
            /\ h \notin BlockHashes

\* The candidate at queue position i (0-based).
ItemAt(i) == prioItems[priorityQueue.items[i + 1]]
QueuePositions == 0..(Len(priorityQueue.items) - 1)
SameKey(a, b) == a.isAdmin = b.isAdmin /\ a.priority = b.priority /\ a.feePerKB = b.feePerKB

\* C17: under the comparator in force, for queue positions i and j holding
\* candidates that differ in admin flag, priority or feePerKB exactly one of
\* less(i, j) and less(j, i) is true; less(i, i) is false; less is transitive.
C17_StrictTotalOrder ==
    \A i, j, k \in QueuePositions :
        /\ ~Less(priorityQueue, prioItems, i, i)
        /\ ~SameKey(ItemAt(i), ItemAt(j)) =>
              (Less(priorityQueue, prioItems, i, j) <=> ~Less(priorityQueue, prioItems, j, i))
        /\ (Less(priorityQueue, prioItems, i, j) /\ Less(priorityQueue, prioItems, j, k)) =>
              Less(priorityQueue, prioItems, i, k)

\* a is ranked strictly above b: by priority then feePerKB under ByPriority,
\* by feePerKB then priority under ByFee.
RankedAbove(lessFunc, a, b) ==
    IF lessFunc = "txPQByFee"
    THEN a.feePerKB > b.feePerKB \/ (a.feePerKB = b.feePerKB /\ a.priority > b.priority)
    ELSE a.priority > b.priority \/ (a.priority = b.priority /\ a.feePerKB > b.feePerKB)

\* C18: for a queue that is given only non-admin candidates, whatever pushes,
\* pops and comparator swaps came before, a pop returns a candidate above
\* which no queued candidate is ranked under the comparator in force at that
\* pop (a swap has re-heapified the queued items).
C18_PopMaximal ==
    [][(/\ pc = "queue"
        /\ Len(priorityQueue'.items) < Len(priorityQueue.items)
        /\ \A h \in PoolHashes : ~prioItems[h].isAdmin)
       => \A h \in QueueHashes : ~RankedAbove(priorityQueue.lessFunc, prioItems[h], prioItems[prioItem'])]_vars
C18_Witness ==
    /\ pc = "queue"
    /\ \A h \in PoolHashes : ~prioItems[h].isAdmin
    /\ Len(priorityQueue.items) = 3
    /\ priorityQueue.lessFunc = "txPQByFee"
    /\ prioItem = 14
    /\ QueueHashes = {1, 2, 7}
    /\ priorityQueue.items[1] = 1

\* The queued items are in heap order by feePerKB, then priority.
HeapOrderedByFee(pq, pi) ==
    \A j \in 2..Len(pq.items) : ~RankedAbove("txPQByFee", pi[pq.items[j]], pi[pq.items[j \div 2]])
\* Every input of tx is available unspent in the block view and the external
\* checks of tx pass.
PassesValidation(tx) ==
    /\ tx.check = "ok"
    /\ \A k \in 1..Len(tx.ins) : ~OutputMissing(blockUtxos, tx.ins[k])

\* C19: sortedByFee starts as BlockPrioritySize = 0 and never goes back to
\* false. In the priority phase a popped candidate that passes the size and
\* sigop gates with blockSize + txSize >= BlockPrioritySize or priority <=
\* MinHighPriority switches to the fee phase: sortedByFee and the ByFee
\* comparator are set and the queued non-admin items are in heap order by
\* fee. The candidate is back in the queue, and the block unchanged, exactly
\* when blockSize + txSize > BlockPrioritySize or priority < MinHighPriority;
\* otherwise it is validated in this iteration and, if valid, appended.
C19_PriorityToFee ==
    [][/\ sortedByFee => sortedByFee'
       /\ pc = "mempoolLoop" => sortedByFee = (policy.BlockPrioritySize = 0)
       /\ (pc = "assembly" /\ pops' # pops) =>
             LET h == prioItem'
                 tx == TxCatalog[h]
                 blockPlusTxSize == (blockSize + tx.size) % UintMod
                 passed == /\ blockPlusTxSize >= blockSize
                           /\ blockPlusTxSize < policy.BlockMaxSize
                           /\ blockSigOps + tx.sigOps + tx.p2sh <= MaxSigOpsPerBlock
                           /\ tx.check # "p2shErr"
                 trigger == blockPlusTxSize >= policy.BlockPrioritySize \/ prioItems[h].priority <= MinHighPriority
                 back == blockPlusTxSize > policy.BlockPrioritySize \/ prioItems[h].priority < MinHighPriority
             IN (~sortedByFee /\ passed /\ trigger) =>
                   /\ sortedByFee'
                   /\ priorityQueue'.lessFunc = "txPQByFee"
                   /\ (\A g \in PoolHashes : ~TxCatalog[g].admin) => HeapOrderedByFee(priorityQueue', prioItems')
                   /\ back <=> h \in QueueHashes'
                   /\ back => (blockTxns' = blockTxns /\ blockUtxos' = blockUtxos /\ pushes'[h] = pushes[h] + 1)
                   /\ (~back /\ PassesValidation(tx)) => blockTxns' = Append(blockTxns, h)
                   /\ (~back /\ ~PassesValidation(tx)) => blockTxns' = blockTxns]_vars
C19_Witness ==
    /\ pc = "assembly"
    /\ policy.BlockPrioritySize > 0
    /\ sortedByFee
    /\ Len(blockTxns) = 2
    /\ blockTxns[Len(blockTxns)] = prioItem
    /\ blockSize = policy.BlockPrioritySize
    /\ pushes[prioItem] = 1
    /\ Len(priorityQueue.items) = 2
    /\ prioItems[priorityQueue.items[2]].priority > prioItems[priorityQueue.items[1]].priority

\* C20: every candidate is pushed at most once and popped at most once, except
\* the one candidate pushed back at the priority-to-fee transition, which is
\* pushed and popped at most twice; no transaction is twice in the block.
C20_PushedAndPoppedOnce ==
    /\ \A h \in TxIds :
          /\ pops[h] <= pushes[h]
          /\ pushes[h] <= 2
          /\ pushes[h] = 2 => (policy.BlockPrioritySize # 0 /\ sortedByFee)
          /\ Occurrences(priorityQueue.items, h) <= 1
          /\ Occurrences(blockTxns, h) <= 1
    /\ Cardinality({h \in TxIds : pushes[h] = 2}) <= 1
    /\ Returned =>
          \A i, j \in 1..Len(msgBlock.Transactions) :
             msgBlock.Transactions[i] = msgBlock.Transactions[j] => i = j
C20_Witness ==
    /\ Returned
    /\ Len(blockTxns) >= 3
    /\ \E h \in BlockHashes : pushes[h] = 2 /\ pops[h] = 2
    /\ \E h \in BlockHashes : prioItems[h].hasDeps /\ pushes[h] = 1 /\ pops[h] = 1

\* Pool transactions for which mempoolLoop builds a prio item: every one but
\* the coinbase, the non-finalized and those whose UTXO fetch fails.
Candidates == {h \in PoolHashes : TxCatalog[h].kind = "normal"}
TotalPops == SumSeq([h \in 1..Len(TxCatalog) |-> pops[h]])
TotalPushes == SumSeq([h \in 1..Len(TxCatalog) |-> pushes[h]])

\* C21: the assembly loop terminates: the pops already made and the pops still
\* owed to queued items never exceed the number of candidates plus one (the
\* one push-back at the transition and the promotions included), every
\* iteration makes exactly one pop, and the loop is left with an empty queue.
C21_PopsBounded ==
    /\ TotalPushes - TotalPops = Len(priorityQueue.items)
    /\ TotalPushes <= Cardinality(Candidates) + 1
    /\ TotalPops <= Cardinality(Candidates) + 1
    /\ pc \in {"done", "error"} => Len(priorityQueue.items) = 0
C21_OnePopEach ==
    [][pc = "assembly" /\ pc' = "assembly" => TotalPops' = TotalPops + 1]_vars
C21_LoopEnds == (pc = "assembly") ~> (pc \in {"done", "error"})
C21_Terminates == []C21_PopsBounded /\ C21_OnePopEach /\ C21_LoopEnds
C21_Witness ==
    /\ pc \in {"done", "error"}
    /\ Cardinality(Candidates) = 3
    /\ TotalPops = Cardinality(Candidates) + 1
    /\ \E h \in Candidates : prioItems[h].hasDeps /\ pops[h] = 1

\* The transaction an iteration of the assembly loop pops, and whether the
\* iteration accepts it into the block.
IsIteration == pc = "assembly" /\ pc' = "assembly" /\ pops' # pops
Accepts(h) == blockTxns' = Append(blockTxns, h)

\* C22: a transaction accepted in an iteration that started in the fee phase
\* with feePerKB below TxMinFreeFee had blockSize + txSize strictly below
\* BlockMinSize when popped; with BlockMinSize = 0 none is accepted.
C22_FreeBelowMinSize ==
    [][\A h \in TxIds :
          (/\ IsIteration /\ prioItem' = h /\ Accepts(h)
           /\ sortedByFee
           /\ prioItems[h].feePerKB < policy.TxMinFreeFee)
          => /\ policy.BlockMinSize # 0
             /\ (blockSize + (TxCatalog[h].size % UintMod)) % UintMod < policy.BlockMinSize]_vars
C22_Witness ==
    /\ pc = "assembly"
    /\ policy.BlockPrioritySize = 0
    /\ policy.BlockMinSize > 0
    /\ Len(blockTxns) >= 2
    /\ blockTxns[Len(blockTxns)] = prioItem
    /\ ~prioItems[prioItem].isAdmin
    /\ prioItems[prioItem].feePerKB < policy.TxMinFreeFee
    /\ blockSize < policy.BlockMinSize

\* The gates of an iteration that pops h, read off the state before it: the
\* size gate, the two sigop gates with the P2SH count between them, the
\* free-transaction gate (lines 631-682) and the three validations (713-740).
SizeOf(h) == TxCatalog[h].size % UintMod
FailsSizeGate(h) ==
    \/ blockSize + SizeOf(h) >= UintMod
    \/ blockSize + SizeOf(h) >= policy.BlockMaxSize
FailsSigOpsGate(h) ==
    \/ blockSigOps + TxCatalog[h].sigOps > MaxSigOpsPerBlock
    \/ TxCatalog[h].check = "p2shErr"
    \/ blockSigOps + TxCatalog[h].sigOps + TxCatalog[h].p2sh > MaxSigOpsPerBlock
FailsFreeGate(h) ==
    /\ sortedByFee
    /\ prioItems[h].feePerKB < policy.TxMinFreeFee
    /\ (blockSize + SizeOf(h)) % UintMod >= policy.BlockMinSize
FailsGate(h) == FailsSizeGate(h) \/ FailsSigOpsGate(h) \/ FailsFreeGate(h)
FailsValidation(h) == ~PassesValidation(TxCatalog[h])
SkipFrame ==
    /\ UNCHANGED <<blockSize, blockSigOps, totalFees, txFees, txSigOpCounts, blockTxns, blockUtxos>>
    /\ \A c \in TxIds : prioItems'[c].dependsOn = prioItems[c].dependsOn

\* C23: an iteration whose candidate fails a gate or a validation does not end
\* the call and leaves blockSize, blockSigOps, totalFees, the fee and sigop
\* lists, the block transactions, the working UTXO view and every dependsOn
\* unchanged; failing the size, sigop or free-transaction gate it also leaves
\* sortedByFee and the comparator unchanged and the candidate out of the queue.
C23_SkipChangesNothing ==
    [][\A h \in TxIds :
          (pc = "assembly" /\ pops' # pops /\ prioItem' = h)
          => /\ pc' = "assembly"
             /\ (FailsGate(h) \/ FailsValidation(h)) => SkipFrame
             /\ FailsGate(h) => /\ sortedByFee' = sortedByFee
                                /\ priorityQueue'.lessFunc = priorityQueue.lessFunc
                                /\ h \notin {priorityQueue'.items[k] : k \in 1..Len(priorityQueue'.items)}]_vars
C23_Witness ==
    /\ Returned
    /\ BlockHashes = {1}
    /\ \E a, b \in PoolHashes :
          /\ TxCatalog[a].check = "badOutputs" /\ pops[a] = 1
          /\ TxCatalog[b].check \in {"badScripts", "p2shErr"} /\ pops[b] = 1
    /\ policy.BlockPrioritySize > 0
    /\ sortedByFee

\* C24: a candidate is skipped whenever blockSize + txSize, computed in
\* unsigned arithmetic, is below blockSize or at least BlockMaxSize (a
\* candidate bringing the size exactly to BlockMaxSize included); the running
\* blockSize is the true sum of the sizes, never a wrapped one, and is strictly
\* below BlockMaxSize after every acceptance.
C24_SizeNeverWraps ==
    pc = "assembly" =>
       /\ blockSize = RunningSize
       /\ Len(blockTxns) > 1 => blockSize < policy.BlockMaxSize
C24_SizeGate ==
    [][\A h \in TxIds :
          (pc = "assembly" /\ pops' # pops /\ prioItem' = h)
          => /\ (\/ (blockSize + SizeOf(h)) % UintMod < blockSize
                 \/ (blockSize + SizeOf(h)) % UintMod >= policy.BlockMaxSize)
                => /\ UNCHANGED <<blockSize, blockTxns>>
                   /\ h \notin {priorityQueue'.items[k] : k \in 1..Len(priorityQueue'.items)}
             /\ Accepts(h) => /\ blockSize' = blockSize + TxCatalog[h].size
                              /\ blockSize' < policy.BlockMaxSize]_vars
C24_SizeChecked == []C24_SizeNeverWraps /\ C24_SizeGate
C24_Witness ==
    /\ pc = "assembly"
    /\ Len(blockTxns) > 1
    /\ \E h \in PoolHashes \ BlockHashes :
          /\ prioItem = h
          /\ pops[h] = 1
          /\ blockSize + SizeOf(h) >= UintMod
          /\ (blockSize + SizeOf(h)) % UintMod < policy.BlockMaxSize

\* The outpoints a transaction spends.
Outpoints(tx) == {tx.ins[k] : k \in 1..Len(tx.ins)}
SpentByBlock == UNION {Outpoints(TxCatalog[h]) : h \in BlockHashes}

\* C25: no two transactions of the block spend the same outpoint: the inputs
\* of an accepted transaction are spent in the working view, and a candidate
\* popped later that spends one of them (an output of the chain or of an
\* accepted pending parent) is not accepted.
C25_InputsSpentOnce ==
    /\ \A a, b \in BlockHashes :
          a # b => Outpoints(TxCatalog[a]) \cap Outpoints(TxCatalog[b]) = {}
    /\ \A o \in SpentByBlock : blockUtxos[o[1]].exists /\ o[2] \notin blockUtxos[o[1]].unspent
    /\ Returned =>
          \A i, j \in 2..Len(msgBlock.Transactions) :
             i # j => Outpoints(msgBlock.Transactions[i]) \cap Outpoints(msgBlock.Transactions[j]) = {}
C25_SpentRejected ==
    [][\A h \in TxIds :
          (pc = "assembly" /\ pops' # pops /\ prioItem' = h
           /\ Outpoints(TxCatalog[h]) \cap SpentByBlock # {})
          => UNCHANGED <<blockTxns, blockUtxos>>]_vars
C25_NoDoubleSpend == []C25_InputsSpentOnce /\ C25_SpentRejected
C25_Witness ==
    /\ Returned
    /\ Len(msgBlock.Transactions) = 3
    /\ \E a \in BlockHashes, b \in PoolHashes \ BlockHashes :
          /\ prioItems[a].hasDeps /\ prioItems[b].hasDeps
          /\ pops[b] = 1
          /\ Outpoints(TxCatalog[a]) = Outpoints(TxCatalog[b])
          /\ blockSize + SizeOf(b) < policy.BlockMaxSize
          /\ prioItems[b].feePerKB >= policy.TxMinFreeFee

\* Serialized size of the k-th transaction of a block body: the coinbase with
\* the script it finally carries, a pool transaction as the source gave it.
SerializeSize(body, k) == IF k = 1 THEN CoinbaseSerializeSize(body[k]) ELSE body[k].size

\* C26: the Size of the returned header is the maximum header payload plus the
\* varint size of the final transaction count plus the serialized sizes of the
\* transactions as finally included, in exact (unwrapped) arithmetic.
C26_HeaderSizeExact ==
    Returned =>
       msgBlock.Header.Size =
          MaxBlockHeaderPayload
          + VarIntSerializeSize(Len(msgBlock.Transactions))
          + SumSeq([k \in 1..Len(msgBlock.Transactions) |-> SerializeSize(msgBlock.Transactions, k)])
C26_Witness ==
    /\ Returned
    /\ Len(msgBlock.Transactions) = 2
    /\ payToAddress \in Addresses
    /\ msgBlock.Transactions[1].PkScript = nullScript
    /\ Len(PayToAddrScript(payToAddress)) > Len(nullScript)

\* The parents mempoolLoop listed for a parked child (the keys its dependsOn
\* started with): the transactions whose dependers hold it.
ListedParents(c) == {p \in TxIds : c \in dependers[p]}
Parked == {c \in TxIds : prioItems[c].hasDeps}

\* C27: during the assembly loop the dependsOn of a parked child only shrinks,
\* and only by a parent accepted in that iteration; the child is pushed in the
\* very iteration that accepts its last listed parent and is popped before the
\* loop ends; it is never pushed while a listed parent is not in the block.
C27_ParkedChildren ==
    /\ \A c \in Parked :
          /\ prioItems[c].dependsOn = ListedParents(c) \ BlockHashes
          /\ pc # "mempoolLoop" => (pushes[c] > 0 <=> ListedParents(c) \subseteq BlockHashes)
    /\ pc \in {"done", "error"} => \A c \in TxIds : pops[c] = pushes[c]
C27_PromotedOnAcceptance ==
    [][pc = "assembly" /\ pc' = "assembly" =>
          \A c \in Parked :
             /\ prioItems'[c].dependsOn \subseteq prioItems[c].dependsOn
             /\ prioItems[c].dependsOn \ prioItems'[c].dependsOn \subseteq {prioItem'}
             /\ prioItems'[c].dependsOn # prioItems[c].dependsOn => Accepts(prioItem')
             /\ (prioItems[c].dependsOn # {} /\ prioItems'[c].dependsOn = {})
                => /\ pushes[c] = 0 /\ pushes'[c] = 1
                   /\ c \in {priorityQueue'.items[k] : k \in 1..Len(priorityQueue'.items)}
             /\ (pushes[c] = 0 /\ pushes'[c] > 0)
                => prioItems[c].dependsOn = {prioItem'} /\ Accepts(prioItem')]_vars
C27_DependsOnShrinks == []C27_ParkedChildren /\ C27_PromotedOnAcceptance
C27_Witness ==
    /\ Returned
    /\ \E c \in Parked \cap BlockHashes :
          /\ Cardinality(ListedParents(c)) = 2
          /\ pushes[c] = 1 /\ pops[c] = 1
          /\ prioItems[c].dependsOn = {}

\* C28: the template's ValidPayAddress is true if and only if the coinbase
\* output of the returned block is the pay-to-address script of the supplied
\* payToAddress, and false exactly when the coinbase pays to no real address.
C28_FlagMatchesCoinbase ==
    Returned =>
       (template.ValidPayAddress
          <=> /\ payToAddress # NoAddress
              /\ msgBlock.Transactions[1].PkScript = PayToAddrScript(payToAddress))

====
